---- MODULE Spec2Model ----
(***************************************************************************)
(* A model of the Shaker Health Dashboard script (src/app.py).  One run of *)
(* the script is the pipeline                                              *)
(*   load_data -> timestamp processing -> date filter -> utilization       *)
(*   derivation -> summary block -> chart tab -> drop-flag tab ->           *)
(*   efficiency tab -> raw-data tab                                        *)
(* and a session is a sequence of such runs over the widget state (the     *)
(* uploaded file, the mesh type, the selected date) and the load_data      *)
(* cache.                                                                  *)
(*                                                                         *)
(* Numbers: a cell of a numeric column is a float or NaN.  Floats are      *)
(* modelled by exact rationals n/d in lowest terms (d > 0); NaN is a       *)
(* separate value that propagates through arithmetic, compares false, and  *)
(* is skipped by mean/min/max, as pandas does.                             *)
(***************************************************************************)
EXTENDS Integers, Sequences, FiniteSets, TLC

VARIABLES file, mesh, pc, cache, df, selected_date,
          summary, chart, drops, efficiency, table, remembered

vars == <<file, mesh, pc, cache, df, selected_date,
          summary, chart, drops, efficiency, table, remembered>>

(* ------------------------------ bounds -------------------------------- *)

\* The largest number of data rows of an uploaded file.
MaxRows == 2

(* ----------------------------- numbers -------------------------------- *)

Abs(x) == IF x < 0 THEN -x ELSE x

RECURSIVE GCD(_, _)
GCD(a, b) == IF b = 0 THEN a ELSE GCD(b, a % b)

NaN == [nan |-> TRUE, n |-> 0, d |-> 1]

\* The rational n/d (d # 0) in lowest terms with a positive denominator.
Rat(n, d) ==
    LET g == GCD(Abs(n), Abs(d))
        s == IF d < 0 THEN -1 ELSE 1
    IN  [nan |-> FALSE, n |-> s * (n \div g), d |-> s * (d \div g)]

Num(n) == [nan |-> FALSE, n |-> n, d |-> 1]

\* Float arithmetic.  The operands' common factors are cancelled before
\* multiplying, so that no intermediate value is wider than the result.
VAdd(x, y) ==
    IF x.nan \/ y.nan THEN NaN
    ELSE LET g == GCD(x.d, y.d)
         IN  Rat(x.n * (y.d \div g) + y.n * (x.d \div g), (x.d \div g) * y.d)
VNeg(x)    == IF x.nan THEN NaN ELSE [nan |-> FALSE, n |-> -x.n, d |-> x.d]
VSub(x, y) == VAdd(x, VNeg(y))
VMul(x, y) ==
    IF x.nan \/ y.nan THEN NaN
    ELSE LET g1 == GCD(Abs(x.n), y.d)
             g2 == GCD(Abs(y.n), x.d)
         IN  Rat((x.n \div g1) * (y.n \div g2), (x.d \div g2) * (y.d \div g1))
\* A zero divisor (inf or nan in numpy) cannot arise in this program for the
\* inputs of the model: the divisors are the constants 100 and mesh_capacity,
\* the row count, and in_rate + 1e-5 with in_rate a multiple of 1/100.
VDiv(x, y) ==
    IF x.nan \/ y.nan \/ y.n = 0 THEN NaN
    ELSE VMul(x, Rat(y.d, y.n))
\* Comparisons with NaN are false.
VLt(x, y)  == ~x.nan /\ ~y.nan /\ x.n * y.d < y.n * x.d
VGt(x, y)  == VLt(y, x)

\* str.format with a fixed number of decimals: "nan" for NaN, otherwise the
\* value rounded (half to even) to a multiple of 1/scale, held as the integer
\* number of such units (scale 10 for .1f, 1 for .0f).
RoundHalfEven(n, d) ==
    LET q == n \div d
        r == n % d
    IN  IF 2 * r < d THEN q
        ELSE IF 2 * r > d THEN q + 1
        ELSE IF q % 2 = 0 THEN q ELSE q + 1

Format(x, scale) ==
    IF x.nan THEN [text |-> "nan", units |-> 0]
    ELSE [text |-> "number", units |-> RoundHalfEven(x.n * scale, x.d)]

(* ------------------------- Series reductions --------------------------- *)

RECURSIVE SumSeq(_)
SumSeq(s) == IF s = <<>> THEN Num(0) ELSE VAdd(Head(s), SumSeq(Tail(s)))

NotNull(s) == SelectSeq(s, LAMBDA v : ~v.nan)

\* Series.mean(): the mean of the non-null values, NaN when there is none.
Mean(s) ==
    LET t == NotNull(s)
    IN  IF t = <<>> THEN NaN ELSE VDiv(SumSeq(t), Num(Len(t)))

RECURSIVE MaxSeq(_)
MaxSeq(s) ==
    IF Len(s) = 1 THEN s[1]
    ELSE LET m == MaxSeq(Tail(s)) IN IF VLt(m, Head(s)) THEN Head(s) ELSE m

RECURSIVE MinSeq(_)
MinSeq(s) ==
    IF Len(s) = 1 THEN s[1]
    ELSE LET m == MinSeq(Tail(s)) IN IF VLt(Head(s), m) THEN Head(s) ELSE m

\* Series.max() / Series.min(): over the non-null values, NaN when there is none.
Max(s) == LET t == NotNull(s) IN IF t = <<>> THEN NaN ELSE MaxSeq(t)
Min(s) == LET t == NotNull(s) IN IF t = <<>> THEN NaN ELSE MinSeq(t)

(* --------------------------- column names ------------------------------ *)

date_str_col  == "YYYY/MM/DD"
time_str_col  == "HH:MM:SS"
timestamp_col == "Timestamp"
date_col      == "Date"
shaker_col    == "SHAKER #3 (PERCENT)"
screen_col    == "Screen Utilization (%)"
wob_col       == "Weight on Bit (klbs)"
flow_col      == "MA_Flow_Rate (gal/min)"
solids_col    == "Solids Volume Rate (gpm)"
bit_depth_col  == "Bit Depth (feet)"
hole_depth_col == "Hole Depth (feet)"
\* The DataFrame index (not a column): the row's position in the CSV file.
index_key     == "index"

\* The numeric columns a CSV file may or may not have.
NumericCols == {shaker_col, screen_col, wob_col, flow_col, bit_depth_col, hole_depth_col}

(* ------------------------- timestamps and dates ------------------------ *)

\* A date string "Y/M/D" is the tuple <<Y, M, D>>, a time string "H:M:S" the
\* tuple <<H, M, S>>; their concatenation is the 6-tuple.  A timestamp is the
\* number of seconds since the epoch (1970-01-01 00:00:00), or NaT.
NaT == [nat |-> TRUE, secs |-> 0]

EpochYear == 1970

IsLeap(y) == (y % 4 = 0 /\ y % 100 # 0) \/ y % 400 = 0

DaysInMonth(y, m) ==
    IF m = 2 THEN (IF IsLeap(y) THEN 29 ELSE 28)
    ELSE IF m \in {4, 6, 9, 11} THEN 30 ELSE 31

DaysInYear(y) == IF IsLeap(y) THEN 366 ELSE 365

RECURSIVE DaysBeforeYear(_)
DaysBeforeYear(y) == IF y <= EpochYear THEN 0 ELSE DaysInYear(y - 1) + DaysBeforeYear(y - 1)

RECURSIVE DaysBeforeMonth(_, _)
DaysBeforeMonth(y, m) == IF m <= 1 THEN 0 ELSE DaysInMonth(y, m - 1) + DaysBeforeMonth(y, m - 1)

\* pd.to_datetime(..., errors='coerce') of one concatenated string: the
\* timestamp it denotes, NaT when it denotes none.
ToDatetime(s) ==
    LET y == s[1]  mo == s[2]  d == s[3]  h == s[4]  mi == s[5]  sec == s[6]
    IN  IF /\ y >= EpochYear
           /\ mo \in 1..12
           /\ d >= 1 /\ d <= DaysInMonth(y, mo)
           /\ h \in 0..23 /\ mi \in 0..59 /\ sec \in 0..59
        THEN [nat |-> FALSE,
              secs |-> (DaysBeforeYear(y) + DaysBeforeMonth(y, mo) + (d - 1)) * 86400
                       + h * 3600 + mi * 60 + sec]
        ELSE NaT

RECURSIVE YearOfDay(_, _)
YearOfDay(y, n) == IF n < DaysInYear(y) THEN <<y, n>> ELSE YearOfDay(y + 1, n - DaysInYear(y))

RECURSIVE MonthOfDay(_, _, _)
MonthOfDay(y, m, n) ==
    IF n < DaysInMonth(y, m) THEN <<m, n>> ELSE MonthOfDay(y, m + 1, n - DaysInMonth(y, m))

\* Series.dt.date of one timestamp: its calendar date <<Y, M, D>>.
DtDate(t) ==
    LET yn == YearOfDay(EpochYear, t.secs \div 86400)
        mn == MonthOfDay(yn[1], 1, yn[2])
    IN  <<yn[1], mn[1], mn[2] + 1>>

\* The order of dates (sorted() of datetime.date values).
DateLess(a, b) ==
    \/ a[1] < b[1]
    \/ a[1] = b[1] /\ a[2] < b[2]
    \/ a[1] = b[1] /\ a[2] = b[2] /\ a[3] < b[3]

(* ------------------------------ frames --------------------------------- *)

\* A DataFrame is [cols, rows]: the set of its column labels and the sequence
\* of its rows, each a function from the labels (and index_key) to the cell.
Extend(row, c, v) == [k \in (DOMAIN row) \cup {c} |-> IF k = c THEN v ELSE row[k]]

\* df[c] = <value per row>: adds or overwrites column c.
SetColumn(d, c, vals) ==
    [cols |-> d.cols \cup {c},
     rows |-> [i \in 1..Len(d.rows) |-> Extend(d.rows[i], c, vals[i])]]

\* df[c] as a sequence of cells (the caller checks c \in d.cols: a KeyError otherwise).
Column(d, c) == [i \in 1..Len(d.rows) |-> d.rows[i][c]]

RECURSIVE MaskRows(_, _)
MaskRows(rows, mask) ==
    IF rows = <<>> THEN <<>>
    ELSE (IF Head(mask) THEN <<Head(rows)>> ELSE <<>>) \o MaskRows(Tail(rows), Tail(mask))

\* df[mask]: the rows whose entry of the boolean mask is true, in order.
FilterRows(d, mask) == [cols |-> d.cols, rows |-> MaskRows(d.rows, mask)]

\* df.tail(n): the last n rows.
TailRows(d, n) ==
    LET len == Len(d.rows)
    IN  [cols |-> d.cols,
         rows |-> IF len <= n THEN d.rows ELSE SubSeq(d.rows, len - n + 1, len)]

(* --------------------------- uploaded files ---------------------------- *)

\* One data row of a CSV file: the cells of every column the file could have
\* (a file has the two string columns and a subset of NumericCols).
CsvRow(d, t, load, util, wob, flow, bit, hole) ==
    [k \in {date_str_col, time_str_col} \cup NumericCols |->
        CASE k = date_str_col   -> d
          [] k = time_str_col   -> t
          [] k = shaker_col     -> load
          [] k = screen_col     -> util
          [] k = wob_col        -> wob
          [] k = flow_col       -> flow
          [] k = bit_depth_col  -> bit
          [] k = hole_depth_col -> hole]

\* The readings: two of 2024-01-01 and two of 2024-01-02 (the second pair
\* with no weight-on-bit reading), one whose date and time strings denote no
\* timestamp, and two with a weight on bit and no load or depth reading.
RowPool ==
    << CsvRow(<<2024, 1, 1>>,  <<0, 0, 0>>,  Num(50),   Num(40),  Num(10),  Num(200), Num(1000), Num(1010)),
       CsvRow(<<2024, 1, 1>>,  <<0, 1, 0>>,  Num(-20),  Num(45),  Num(10),  Num(200), Num(1005), Num(1000)),
       CsvRow(<<2024, 1, 2>>,  <<0, 0, 0>>,  Num(160),  Num(120), NaN,      Num(200), Num(2000), Num(2001)),
       CsvRow(<<2024, 1, 2>>,  <<0, 0, 30>>, Num(-140), Num(-3),  NaN,      Num(200), Num(1990), Num(2002)),
       CsvRow(<<2024, 13, 1>>, <<25, 0, 0>>, Num(10),   Num(50),  Num(10),  Num(200), Num(3000), Num(3000)),
       CsvRow(<<2024, 1, 1>>,  <<0, 2, 0>>,  NaN,       NaN,      Num(300), Num(200), NaN,       NaN),
       CsvRow(<<2024, 1, 2>>,  <<0, 1, 0>>,  NaN,       NaN,      Num(-5),  Num(200), NaN,       NaN) >>

RECURSIVE SeqsUpTo(_, _)
SeqsUpTo(S, n) ==
    IF n = 0 THEN {<<>>}
    ELSE LET shorter == SeqsUpTo(S, n - 1)
         IN  shorter \cup {Append(s, x) : s \in {t \in shorter : Len(t) = n - 1}, x \in S}

\* An uploaded file: its numeric columns and its data rows (as places in RowPool).
Files == [cols : SUBSET NumericCols, rows : SeqsUpTo(1..Len(RowPool), MaxRows)]

\* pd.read_csv(file): one row per data row, indexed 0, 1, ... in file order,
\* with the columns the file has.
ReadCsv(f) ==
    LET cs == {date_str_col, time_str_col} \cup f.cols
    IN  [cols |-> cs,
         rows |-> [i \in 1..Len(f.rows) |->
                     [k \in cs \cup {index_key} |->
                        IF k = index_key THEN i - 1 ELSE RowPool[f.rows[i]][k]]]]

(* ------------------------ sidebar: mesh capacity ----------------------- *)

MeshTypes == {"API 100", "API 140", "API 170", "API 200"}

SCREEN_MESH_CAPACITY(m) ==
    CASE m = "API 100" -> 250
      [] m = "API 140" -> 200
      [] m = "API 170" -> 160
      [] m = "API 200" -> 120

mesh_capacity(m) == SCREEN_MESH_CAPACITY(m)

(* ----------------------------- load_data ------------------------------- *)

\* CacheLookup that does not look at the argument (a cache keyed by the
\* function alone).
CacheLookupAnyKey(c, f) == c

\* st.cache_data keeps, per argument, a serialised copy of the value returned
\* and hands out a fresh copy of it on a hit: the entries are [key, value] and
\* nothing a run does to its frame reaches them.
CacheLookup(c, f) == {e \in c : e.key = f}

\* load_data(uploaded_file): the cached frame on a hit, pd.read_csv on a miss.
load_data(c, f) ==
    LET hit == CacheLookup(c, f)
    IN  IF hit # {} THEN (CHOOSE e \in hit : TRUE).value ELSE ReadCsv(f)

CacheStore(c, f) ==
    IF CacheLookup(c, f) # {} THEN c ELSE c \cup {[key |-> f, value |-> ReadCsv(f)]}

(* ------------------------- timestamp processing ------------------------ *)

\* df['Timestamp'] = pd.to_datetime(date + ' ' + time, errors='coerce')
WithTimestamp(d) ==
    SetColumn(d, timestamp_col,
              [i \in 1..Len(d.rows) |->
                  ToDatetime(d.rows[i][date_str_col] \o d.rows[i][time_str_col])])

\* DropNaT that drops nothing.
DropNothing(d) == d

\* df.dropna(subset=['Timestamp'])
DropNaT(d) == FilterRows(d, [i \in 1..Len(d.rows) |-> ~d.rows[i][timestamp_col].nat])

\* df['Date'] = df['Timestamp'].dt.date
WithDate(d) ==
    SetColumn(d, date_col, [i \in 1..Len(d.rows) |-> DtDate(d.rows[i][timestamp_col])])

ProcessTimestamp(d) == WithDate(DropNaT(WithTimestamp(d)))

(* ---------------------------- calendar filter -------------------------- *)

RECURSIVE SortDates(_)
SortDates(S) ==
    IF S = {} THEN <<>>
    ELSE LET least == CHOOSE a \in S : \A b \in S : a = b \/ DateLess(a, b)
         IN  <<least>> \o SortDates(S \ {least})

\* sorted(df['Date'].dropna().unique())
date_options(d) == SortDates({d.rows[i][date_col] : i \in 1..Len(d.rows)})

\* The selectbox's value: one of its options, None (the empty tuple) when it has none.
None == <<>>

Selectable(d) ==
    LET opts == date_options(d)
    IN  IF opts = <<>> THEN {None} ELSE {opts[i] : i \in 1..Len(opts)}

\* DateFilter that keeps every row.
DateFilterNone(d, sel) == d

\* df[df['Date'] == selected_date]
DateFilter(d, sel) == FilterRows(d, [i \in 1..Len(d.rows) |-> d.rows[i][date_col] = sel])

(* ------------------------ screen utilization --------------------------- *)

\* DeriveUtilization with the utilization kept within [0, 100].
DeriveUtilizationClamped(d, cap) ==
    IF screen_col \notin d.cols
    THEN IF {wob_col, flow_col} \subseteq d.cols
         THEN LET d1 == SetColumn(d, solids_col,
                          [i \in 1..Len(d.rows) |->
                              VDiv(VMul(d.rows[i][wob_col], d.rows[i][flow_col]), Num(100))])
                  Clamp(u) == IF VLt(u, Num(0)) THEN Num(0)
                              ELSE IF VGt(u, Num(100)) THEN Num(100) ELSE u
              IN  SetColumn(d1, screen_col,
                          [i \in 1..Len(d1.rows) |->
                              Clamp(VMul(VDiv(d1.rows[i][solids_col], Num(cap)), Num(100)))])
         ELSE d
    ELSE d

\* DeriveUtilization without the test of line 61: utilization is computed
\* whenever its inputs are there.
DeriveUtilizationAlways(d, cap) ==
    IF {wob_col, flow_col} \subseteq d.cols
    THEN LET d1 == SetColumn(d, solids_col,
                     [i \in 1..Len(d.rows) |->
                         VDiv(VMul(d.rows[i][wob_col], d.rows[i][flow_col]), Num(100))])
         IN  SetColumn(d1, screen_col,
                     [i \in 1..Len(d1.rows) |->
                         VMul(VDiv(d1.rows[i][solids_col], Num(cap)), Num(100))])
    ELSE d

\* Lines 61-64: the two derived columns, when utilization is not available
\* and both of its inputs are.
DeriveUtilization(d, cap) ==
    IF screen_col \notin d.cols
    THEN IF {wob_col, flow_col} \subseteq d.cols
         THEN LET d1 == SetColumn(d, solids_col,
                          [i \in 1..Len(d.rows) |->
                              VDiv(VMul(d.rows[i][wob_col], d.rows[i][flow_col]), Num(100))])
              IN  SetColumn(d1, screen_col,
                          [i \in 1..Len(d1.rows) |->
                              VMul(VDiv(d1.rows[i][solids_col], Num(cap)), Num(100))])
         ELSE d
    ELSE d

(* ----------------------------- summary block -------------------------- *)

\* A metric that is not on the page.
Blank == [text |-> "none", units |-> 0]

NotRun == [status |-> "not run", level |-> "none"]

\* classifyAnomaly with the Warning rule tested first.
classifyAnomalyWarningFirst(shaker_avg, shaker_max) ==
    IF VLt(shaker_avg, Num(20)) THEN "Warning"
    ELSE IF VLt(shaker_avg, Num(0)) \/ VGt(shaker_max, Num(150)) THEN "Critical"
    ELSE "Normal"

\* Lines 89-92: st.error is the Critical status, st.warning the Warning
\* status, no message the Normal one.
classifyAnomaly(shaker_avg, shaker_max) ==
    IF VLt(shaker_avg, Num(0)) \/ VGt(shaker_max, Num(150)) THEN "Critical"
    ELSE IF VLt(shaker_avg, Num(20)) THEN "Warning"
    ELSE "Normal"

\* Line 71.
depth_col(d) == IF bit_depth_col \in d.cols THEN bit_depth_col ELSE hole_depth_col

\* Line 81.
screen_life(screen_avg) == VSub(Num(120), VMul(VDiv(screen_avg, Num(100)), Num(30)))

\* Lines 73-92, when no column lookup raises.
SummaryBody(d) ==
    LET total_depth == Max(Column(d, depth_col(d)))
        shaker_avg  == Mean(Column(d, shaker_col))
        shaker_min  == Min(Column(d, shaker_col))
        shaker_max  == Max(Column(d, shaker_col))
        screen_avg  == Mean(Column(d, screen_col))
        screen_min  == Min(Column(d, screen_col))
        screen_max  == Max(Column(d, screen_col))
        life        == screen_life(screen_avg)
    IN  [status |-> "ok", level |-> "none",
         shaker_avg |-> shaker_avg, shaker_max |-> shaker_max,
         depth   |-> Format(total_depth, 1),
         load    |-> <<Format(shaker_avg, 10), Format(shaker_min, 10), Format(shaker_max, 10)>>,
         util    |-> <<Format(screen_avg, 10), Format(screen_min, 10), Format(screen_max, 10)>>,
         life    |-> Format(life, 10),
         anomaly |-> classifyAnomaly(shaker_avg, shaker_max)]

\* The KeyError of lines 73-80: a column the block reads is not in the frame.
SummaryRaises(d) ==
    \/ depth_col(d) \notin d.cols
    \/ shaker_col \notin d.cols
    \/ screen_col \notin d.cols

SummaryFailed(lvl) ==
    [status |-> "unavailable", level |-> lvl,
     shaker_avg |-> NaN, shaker_max |-> NaN,
     depth |-> Blank, load |-> <<Blank, Blank, Blank>>, util |-> <<Blank, Blank, Blank>>,
     life |-> Blank, anomaly |-> "none"]

\* Lines 68-95: the try block and its handler.
TrySummary(d) ==
    IF SummaryRaises(d) THEN SummaryFailed("warning") ELSE SummaryBody(d)

(* -------------------------------- tabs --------------------------------- *)

\* The number of points of the chart (line 103).
ChartPoints == 1000

\* TryChart without its except clause: the exception leaves the block.
TryChartUncaught(d) ==
    IF shaker_col \notin d.cols
    THEN [status |-> "raised", level |-> "none", x |-> <<>>, y |-> <<>>]
    ELSE LET last == TailRows(d, ChartPoints)
         IN  [status |-> "ok", level |-> "none",
              x |-> Column(last, timestamp_col), y |-> Column(last, shaker_col)]

\* Lines 102-106: px.line over the last 1000 rows; st.error on failure.
TryChart(d) ==
    IF shaker_col \notin d.cols
    THEN [status |-> "unavailable", level |-> "error", x |-> <<>>, y |-> <<>>]
    ELSE LET last == TailRows(d, ChartPoints)
         IN  [status |-> "ok", level |-> "none",
              x |-> Column(last, timestamp_col), y |-> Column(last, shaker_col)]

\* The drop threshold (line 111).
DropThreshold == -10

\* Lines 110-121: the load line and the markers of the rows below the threshold.
TryDrops(d) ==
    IF shaker_col \notin d.cols
    THEN [status |-> "unavailable", level |-> "warning",
          x |-> <<>>, y |-> <<>>, flag_x |-> <<>>, flag_y |-> <<>>]
    ELSE LET drop_df == FilterRows(d, [i \in 1..Len(d.rows) |->
                                          VLt(d.rows[i][shaker_col], Num(DropThreshold))])
         IN  [status |-> "ok", level |-> "none",
              x |-> Column(d, timestamp_col), y |-> Column(d, shaker_col),
              flag_x |-> Column(drop_df, timestamp_col),
              flag_y |-> Column(drop_df, shaker_col)]

\* 1e-5 (line 128).
Epsilon == Rat(1, 100000)

\* Lines 126-129.
eff_avg(d) ==
    Mean([i \in 1..Len(d.rows) |->
            LET in_rate  == VDiv(VMul(d.rows[i][wob_col], d.rows[i][flow_col]), Num(100))
                out_rate == d.rows[i][shaker_col]
            IN  VMul(VDiv(out_rate, VAdd(in_rate, Epsilon)), Num(100))])

\* Line 130: the two slices handed to px.pie.
PieValues(avg) == <<avg, VSub(Num(100), avg)>>

\* Lines 125-134.
TryEfficiency(d) ==
    IF ~({wob_col, flow_col, shaker_col} \subseteq d.cols)
    THEN [status |-> "unavailable", level |-> "warning", values |-> <<>>]
    ELSE [status |-> "ok", level |-> "none", values |-> PieValues(eff_avg(d))]

(* ------------------------------ the run -------------------------------- *)

EmptyFrame == [cols |-> {}, rows |-> <<>>]

\* An exception that leaves its block ends the script run.
After(result, next) == IF result.status = "raised" THEN "crashed" ELSE next

\* Line 47.
LoadData ==
    /\ pc = "load"
    /\ df' = load_data(cache, file)
    /\ cache' = CacheStore(cache, file)
    /\ pc' = "timestamp"
    /\ UNCHANGED <<file, mesh, selected_date, summary, chart, drops, efficiency,
                   table, remembered>>

\* Lines 50-52.
Normalize ==
    /\ pc = "timestamp"
    /\ df' = ProcessTimestamp(df)
    /\ pc' = "filter"
    /\ UNCHANGED <<file, mesh, cache, selected_date, summary, chart, drops,
                   efficiency, table, remembered>>

\* Lines 55-58: 'Date' is always a column here; the operator picks a date.
CalendarFilter ==
    /\ pc = "filter"
    /\ \E sel \in Selectable(df) :
          /\ selected_date' = sel
          /\ df' = DateFilter(df, sel)
    /\ pc' = "derive"
    /\ UNCHANGED <<file, mesh, cache, summary, chart, drops, efficiency, table,
                   remembered>>

\* Lines 61-64.
Derive ==
    /\ pc = "derive"
    /\ df' = DeriveUtilization(df, mesh_capacity(mesh))
    /\ pc' = "summary"
    /\ UNCHANGED <<file, mesh, cache, selected_date, summary, chart, drops,
                   efficiency, table, remembered>>

\* Lines 67-95.
Summary ==
    /\ pc = "summary"
    /\ summary' = TrySummary(df)
    /\ pc' = After(summary', "chart")
    /\ UNCHANGED <<file, mesh, cache, df, selected_date, chart, drops, efficiency,
                   table, remembered>>

\* Lines 100-106.
Chart ==
    /\ pc = "chart"
    /\ chart' = TryChart(df)
    /\ pc' = After(chart', "drops")
    /\ UNCHANGED <<file, mesh, cache, df, selected_date, summary, drops, efficiency,
                   table, remembered>>

\* Lines 108-121.
DropFlags ==
    /\ pc = "drops"
    /\ drops' = TryDrops(df)
    /\ pc' = After(drops', "efficiency")
    /\ UNCHANGED <<file, mesh, cache, df, selected_date, summary, chart, efficiency,
                   table, remembered>>

\* Lines 123-134.
Efficiency ==
    /\ pc = "efficiency"
    /\ efficiency' = TryEfficiency(df)
    /\ pc' = After(efficiency', "table")
    /\ UNCHANGED <<file, mesh, cache, df, selected_date, summary, chart, drops,
                   table, remembered>>

\* Lines 136-138.
RawData ==
    /\ pc = "table"
    /\ table' = df
    /\ pc' = "done"
    /\ UNCHANGED <<file, mesh, cache, df, selected_date, summary, chart, drops,
                   efficiency, remembered>>

(* ----------------------------- the session ----------------------------- *)

\* What a finished run showed, with the widget state it ran under.
ThisRun ==
    [file |-> file, mesh |-> mesh, date |-> selected_date,
     out |-> <<df, summary, chart, drops, efficiency, table>>]

\* The files of a session with reruns: with and without a utilization
\* column, of one day and of two.
RerunFiles ==
    [cols : {NumericCols, {shaker_col, wob_col, flow_col, bit_depth_col}},
     rows : {<<1, 2>>, <<3, 1>>}]

\* A widget changes (a file is uploaded, again or anew; the mesh type is
\* changed; the date is then picked in the new run) and the script runs again
\* from the top.  The finished run may be the one later runs are compared with.
Rerun ==
    /\ pc = "done"
    /\ \E f \in RerunFiles, m \in MeshTypes, keep \in BOOLEAN :
          /\ file' = f
          /\ mesh' = m
          /\ remembered' = IF keep THEN {ThisRun} ELSE remembered
    /\ pc' = "load"
    /\ df' = EmptyFrame
    /\ selected_date' = None
    /\ summary' = NotRun /\ chart' = NotRun /\ drops' = NotRun /\ efficiency' = NotRun
    /\ table' = EmptyFrame
    /\ UNCHANGED cache

\* ttl=60: an entry of the cache expires.
CacheExpire ==
    /\ pc = "done"
    /\ \E e \in cache : cache' = cache \ {e}
    /\ UNCHANGED <<file, mesh, pc, df, selected_date, summary, chart, drops,
                   efficiency, table, remembered>>

Start(F) ==
    /\ file \in F
    /\ mesh \in MeshTypes
    /\ pc = "load"
    /\ cache = {}
    /\ df = EmptyFrame
    /\ selected_date = None
    /\ summary = NotRun /\ chart = NotRun /\ drops = NotRun /\ efficiency = NotRun
    /\ table = EmptyFrame
    /\ remembered = {}

\* One run of the script over an uploaded file.
Init == Start(Files)

Next ==
    \/ LoadData
    \/ Normalize
    \/ CalendarFilter
    \/ Derive
    \/ Summary
    \/ Chart
    \/ DropFlags
    \/ Efficiency
    \/ RawData

Spec == Init /\ [][Next]_vars

\* A session: runs of the script, one after another, over the cache.
InitReruns == Start(RerunFiles)

NextReruns ==
    \/ LoadData
    \/ Normalize
    \/ CalendarFilter
    \/ Derive
    \/ Summary
    \/ Chart
    \/ DropFlags
    \/ Efficiency
    \/ RawData
    \/ Rerun
    \/ CacheExpire

SpecReruns == InitReruns /\ [][NextReruns]_vars

(* ============================== properties ============================= *)

\* The run has built the Series (the frame every computation reads).
SeriesBuilt == pc \in {"summary", "chart", "drops", "efficiency", "table", "done"}

\* Exact comparisons of non-null numbers with integers.
Below(x, k) == ~x.nan /\ x.n < k * x.d
Above(x, k) == ~x.nan /\ x.n > k * x.d

(* ---- C1 --------------------------------------------------------------- *)
\* C1: the anomaly status is decided by (shakerLoadMean, shakerLoadMax)
\* alone, first match winning: Critical when mean < 0 or max > 150, Warning
\* when that does not hold and mean < 20, Normal otherwise; mean = 15,
\* max = 50 is Warning.
C1_FirstMatchWins ==
    summary.status = "ok" =>
        LET mean == summary.shaker_avg
            max  == summary.shaker_max
            critical == Below(mean, 0) \/ Above(max, 150)
        IN  /\ critical => summary.anomaly = "Critical"
            /\ (~critical /\ Below(mean, 20)) => summary.anomaly = "Warning"
            /\ (~critical /\ ~Below(mean, 20)) => summary.anomaly = "Normal"
            /\ (mean = Num(15) /\ max = Num(50)) => summary.anomaly = "Warning"

\* Both conditions hold (mean = 10 < 20, max = 160 > 150) and Critical wins.
C1_Witness ==
    /\ summary.status = "ok"
    /\ summary.shaker_avg = Num(10)
    /\ summary.shaker_max = Num(160)
    /\ summary.anomaly = "Critical"

(* ---- C2 --------------------------------------------------------------- *)
Shown(m) == m.text # "none"

\* C2: over an empty Series the summary reports every statistic as
\* unavailable: no metric is on the page and no status (Normal included) is
\* given.
C2_EmptyIsUnavailable ==
    (SeriesBuilt /\ summary.status # "not run" /\ df.rows = <<>>) =>
        /\ summary.status = "unavailable"
        /\ ~Shown(summary.depth) /\ ~Shown(summary.life)
        /\ \A i \in 1..3 : ~Shown(summary.load[i]) /\ ~Shown(summary.util[i])
        /\ summary.anomaly = "none"

(* ---- C3 --------------------------------------------------------------- *)
\* The frame with only the columns cs (those it has of them).
Restrict(d, cs) ==
    [cols |-> d.cols \cap cs,
     rows |-> [i \in 1..Len(d.rows) |->
                 [k \in (d.cols \cap cs) \cup {index_key} |-> d.rows[i][k]]]]

SummaryReads    == {bit_depth_col, hole_depth_col, shaker_col, screen_col}
ChartReads      == {timestamp_col, shaker_col}
DropReads       == {timestamp_col, shaker_col}
EfficiencyReads == {wob_col, flow_col, shaker_col}

Failed(r) == r.status = "unavailable"

\* No exception ends the run; at its end each of the four computations has
\* run, has failed only if a column it reads is absent, and has produced what
\* it produces from the columns it reads alone, whatever became of the others.
C3_Independent ==
    /\ pc # "crashed"
    /\ pc = "done" =>
        /\ \A r \in {summary, chart, drops, efficiency} : r.status \in {"ok", "unavailable"}
        /\ Failed(summary) =>
              ~({shaker_col, screen_col} \subseteq df.cols
                  /\ {bit_depth_col, hole_depth_col} \cap df.cols # {})
        /\ Failed(chart) => ~(ChartReads \subseteq df.cols)
        /\ Failed(drops) => ~(DropReads \subseteq df.cols)
        /\ Failed(efficiency) => ~(EfficiencyReads \subseteq df.cols)
        /\ summary = TrySummary(Restrict(df, SummaryReads))
        /\ chart = TryChart(Restrict(df, ChartReads))
        /\ drops = TryDrops(Restrict(df, DropReads))
        /\ efficiency = TryEfficiency(Restrict(df, EfficiencyReads))

\* C3 (as stated): each computation is independently fallible and every
\* failure is reported as a warning.
C3_AllWarnings ==
    /\ C3_Independent
    /\ pc = "done" =>
          \A r \in {summary, chart, drops, efficiency} : Failed(r) => r.level = "warning"

\* C3 (amended): each computation is independently fallible and every failure
\* is reported by a message that does not stop the run: a warning for the
\* summary, the drop detection and the efficiency, an error message for the
\* chart.
C3_IndependentlyReported ==
    /\ C3_Independent
    /\ pc = "done" =>
        /\ \A r \in {summary, drops, efficiency} : Failed(r) => r.level = "warning"
        /\ Failed(chart) => chart.level = "error"
        /\ \A r \in {summary, chart, drops, efficiency} : ~Failed(r) => r.level = "none"

\* The efficiency and the summary fail (no flow rate, no depth) and the chart
\* and the drop detection run over a Series that has readings.
C3_Witness ==
    /\ pc = "done"
    /\ df.rows # <<>>
    /\ Failed(summary) /\ Failed(efficiency)
    /\ chart.status = "ok" /\ drops.status = "ok"
    /\ drops.flag_x # <<>>

(* ---- C4 --------------------------------------------------------------- *)
\* C4: the derivation step leaves the Series as it is when a utilization
\* column is present, and when it is absent and weight-on-bit or flow-rate
\* is missing.
C4_DeriveNoOp ==
    [][(pc = "derive"
          /\ (screen_col \in df.cols \/ ~({wob_col, flow_col} \subseteq df.cols)))
        => df' = df]_vars

\* The step has run over readings that have a utilization column and both of
\* the columns it would be derived from.
C4_Witness ==
    /\ pc = "summary"
    /\ {screen_col, wob_col, flow_col} \subseteq file.cols
    /\ df.rows # <<>>
    /\ solids_col \notin df.cols
    /\ \E i \in 1..Len(df.rows) : ~df.rows[i][wob_col].nan /\ ~df.rows[i][screen_col].nan

(* ---- C5 --------------------------------------------------------------- *)
\* The utilization column is derived in this run.
Derived == screen_col \notin file.cols /\ {wob_col, flow_col} \subseteq file.cols

\* x = a / b for integers a and b > 0.
IsQuotient(x, a, b) == ~x.nan /\ x.n * b = a * x.d

LessThan(x, y) == x.n * y.d < y.n * x.d

\* The capacity of the selected mesh type.
C5_Capacity ==
    /\ mesh = "API 100" => mesh_capacity(mesh) = 250
    /\ mesh = "API 140" => mesh_capacity(mesh) = 200
    /\ mesh = "API 170" => mesh_capacity(mesh) = 160
    /\ mesh = "API 200" => mesh_capacity(mesh) = 120
    /\ mesh_capacity(mesh) > 0

\* C5: when utilization is derived, every row has
\* solidsRate = weightOnBit * flowRate / 100 and
\* utilization = solidsRate / meshCapacity * 100 (unclamped) with the capacity
\* of the selected mesh type; utilization is strictly increasing in
\* solidsRate; weightOnBit = 10, flowRate = 200, capacity 250 gives 8.
C5_DerivedUtilization ==
    /\ C5_Capacity
    /\ (SeriesBuilt /\ Derived) =>
        /\ {solids_col, screen_col} \subseteq df.cols
        /\ \A i \in 1..Len(df.rows) :
              LET r   == df.rows[i]
                  w   == r[wob_col]
                  f   == r[flow_col]
                  cap == mesh_capacity(mesh)
              IN  IF w.nan \/ f.nan
                  THEN r[solids_col].nan /\ r[screen_col].nan
                  ELSE /\ IsQuotient(r[solids_col], w.n * f.n, 100 * w.d * f.d)
                       /\ IsQuotient(r[screen_col], w.n * f.n, cap * w.d * f.d)
                       /\ (w = Num(10) /\ f = Num(200) /\ cap = 250) => r[screen_col] = Num(8)
        /\ \A i, j \in 1..Len(df.rows) :
              LET a == df.rows[i]
                  b == df.rows[j]
              IN  (~a[solids_col].nan /\ ~b[solids_col].nan
                     /\ LessThan(a[solids_col], b[solids_col]))
                  => LessThan(a[screen_col], b[screen_col])

\* Utilization is derived with capacity 250 for two readings of one day:
\* 8 for one, and for the other a value above 100.
C5_Witness ==
    /\ pc = "summary"
    /\ Derived
    /\ mesh = "API 100"
    /\ \E i, j \in 1..Len(df.rows) :
          /\ df.rows[i][wob_col] = Num(10)
          /\ df.rows[i][screen_col] = Num(8)
          /\ Above(df.rows[j][screen_col], 100)

(* ---- C6 --------------------------------------------------------------- *)
\* C6: the two slices handed to the pie are (removed, losses) with both in
\* [0, 100] and removed + losses = 100: a mean efficiency outside [0, 100]
\* never reaches the display as it is.
C6_PieWithinRange ==
    (efficiency.status = "ok" /\ ~efficiency.values[1].nan) =>
        LET removed == efficiency.values[1]
            losses  == efficiency.values[2]
        IN  /\ ~Below(removed, 0) /\ ~Above(removed, 100)
            /\ ~Below(losses, 0) /\ ~Above(losses, 100)
            /\ VAdd(removed, losses) = Num(100)

(* ---- C7 --------------------------------------------------------------- *)
\* The date and time strings of a data row denote a timestamp.
Denotes(row) ==
    LET d == row[date_str_col]
        t == row[time_str_col]
    IN  /\ d[2] \in 1..12 /\ d[3] \in 1..DaysInMonth(d[1], d[2])
        /\ t[1] \in 0..23 /\ t[2] \in 0..59 /\ t[3] \in 0..59

\* Row i of the file, as uploaded.
FileRow(i) == RowPool[file.rows[i]]

\* C7: after the timestamp processing the frame holds exactly the file's rows
\* whose date and time strings denote a timestamp, in file order, each with
\* its columns as uploaded and with Date the calendar date its string names;
\* no row raises an error.
C7_Normalize ==
    /\ pc # "crashed"
    /\ pc = "filter" =>
        /\ \A i \in 1..Len(df.rows) :
              LET r == df.rows[i]
                  k == r[index_key] + 1
              IN  /\ k \in 1..Len(file.rows)
                  /\ Denotes(FileRow(k))
                  /\ \A c \in {date_str_col, time_str_col} \cup file.cols : r[c] = FileRow(k)[c]
                  /\ ~r[timestamp_col].nat
                  /\ r[date_col] = FileRow(k)[date_str_col]
        /\ \A i, j \in 1..Len(df.rows) :
              i < j => df.rows[i][index_key] < df.rows[j][index_key]
        /\ \A k \in 1..Len(file.rows) :
              Denotes(FileRow(k)) => \E i \in 1..Len(df.rows) : df.rows[i][index_key] = k - 1

\* A file of two rows of which the first does not parse: the second is kept.
C7_Witness ==
    /\ pc = "filter"
    /\ Len(file.rows) = 2
    /\ ~Denotes(FileRow(1))
    /\ Len(df.rows) = 1
    /\ df.rows[1][index_key] = 1
    /\ df.rows[1][date_col] = <<2024, 1, 2>>

(* ---- C8 --------------------------------------------------------------- *)
SameDate == \A i \in 1..Len(df.rows) : df.rows[i][date_col] = selected_date

\* C8 (as stated): the readings of the Series share the selected date and
\* are in ascending timestamp order, for every uploaded file.
C8_Chronological ==
    SeriesBuilt =>
        /\ SameDate
        /\ \A i, j \in 1..Len(df.rows) :
              i < j => df.rows[i][timestamp_col].secs <= df.rows[j][timestamp_col].secs

\* C8 (amended): the readings of the Series share the selected date and are
\* in the order of the file's rows, which is chronological only when the
\* file's rows of that day are; the chart shows the last (at most 1000) rows
\* of the Series in that order.
C8_FileOrder ==
    SeriesBuilt =>
        /\ SameDate
        /\ \A i, j \in 1..Len(df.rows) :
              i < j => df.rows[i][index_key] < df.rows[j][index_key]
        /\ (chart.status = "ok" /\ Len(df.rows) <= 1000) =>
              chart.x = [i \in 1..Len(df.rows) |-> df.rows[i][timestamp_col]]

\* A file whose later reading of the selected day comes first: the Series
\* and the chart keep that order.
C8_Witness ==
    /\ pc = "done"
    /\ chart.status = "ok"
    /\ Len(df.rows) = 2
    /\ Len(chart.x) = 2
    /\ chart.x[1].secs > chart.x[2].secs
    /\ df.rows[1][date_col] = selected_date

(* ---- C9 --------------------------------------------------------------- *)
\* C9: what a run shows depends only on that run's file, mesh type and
\* selected date: a finished run shows what any earlier run with the same
\* three showed, and a derived utilization is the one of this run's capacity.
C9_RunsAreIndependent ==
    pc = "done" =>
        /\ \A r \in remembered :
              (r.file = file /\ r.mesh = mesh /\ r.date = selected_date) => r.out = ThisRun.out
        /\ Derived =>
              \A i \in 1..Len(df.rows) :
                 LET w == df.rows[i][wob_col]
                     f == df.rows[i][flow_col]
                 IN  (~w.nan /\ ~f.nan) =>
                        IsQuotient(df.rows[i][screen_col], w.n * f.n,
                                   mesh_capacity(mesh) * w.d * f.d)

\* A run over a file from which utilization is derived has finished, after a
\* run over the same file and date under another mesh type that derived
\* another utilization.
C9_Witness ==
    /\ pc = "done"
    /\ Derived
    /\ df.rows # <<>>
    /\ \E r \in remembered :
          /\ r.file = file /\ r.date = selected_date /\ r.mesh # mesh
          /\ r.out[1] # df

(* ---- C10 -------------------------------------------------------------- *)
IsNumber(m) == m.text = "number"

\* C10: without either depth column the summary of a non-empty Series with a
\* load and a utilization column still shows the load and utilization
\* statistics, the screen life and a status, with only the depth missing; with
\* both depth columns the depth shown is the maximum of Bit Depth (feet).
C10_DepthOptional ==
    (SeriesBuilt /\ summary.status # "not run" /\ df.rows # <<>>
        /\ {shaker_col, screen_col} \subseteq df.cols
        /\ \A i \in 1..Len(df.rows) :
              ~df.rows[i][shaker_col].nan /\ ~df.rows[i][screen_col].nan) =>
        /\ \A i \in 1..3 : IsNumber(summary.load[i]) /\ IsNumber(summary.util[i])
        /\ IsNumber(summary.life)
        /\ summary.anomaly \in {"Critical", "Warning", "Normal"}
        /\ ({bit_depth_col, hole_depth_col} \cap df.cols = {}) => ~Shown(summary.depth)
        /\ ({bit_depth_col, hole_depth_col} \subseteq df.cols) =>
              summary.depth = Format(Max(Column(df, bit_depth_col)), 1)

====
